---- MODULE Spec2Model ----
(***************************************************************************)
(* A model of the random-coffee pairing engine (src/src/pairing.py) and of *)
(* its caller run_random_coffee (src/src/main.py).                         *)
(*                                                                         *)
(* Python values are modelled with a fixed shape per field, because a      *)
(* model value is compared with every other value of the same field:       *)
(*   - a list is a sequence, a tuple (p1, p2) is the sequence <<p1, p2>>;   *)
(*   - Optional[PairHistory] is [isNone |-> BOOLEAN, val |-> sequence];     *)
(*   - a dict read with .get()/[] is a record whose absent keys hold the    *)
(*     marker NoKey (or a "kind" field saying missing / null / present).    *)
(***************************************************************************)
EXTENDS Integers, Sequences, FiniteSets, TLC

VARIABLES
    pc,                        \* control location of the running function
    members,                   \* generate_pairs: the caller's member list
    previous_pairs,            \* Optional[PairHistory] handed to generate_pairs
    available,                 \* generate_pairs: the shuffled pool
    members_previous_matches,  \* generate_pairs: member -> avoid-set
    pairs,                     \* generate_pairs: the Round built so far
    first_member,              \* generate_pairs: available[-1] after the shuffle
    messages,                  \* the records handed to the history decoder
    metadata,                  \* the dict pairs_to_metadata returned
    exc,                       \* the exception that ended the function, or NoExc
    exc_arg,                   \* the count in a PairingError's message, or 0
    success_count,             \* send_pair_notifications: deliveries that succeeded
    fail_count,                \* send_pair_notifications: deliveries that failed
    pair_index,                \* send_pair_notifications: pairs the loop has taken
    dm_calls,                  \* the calls of send_group_dm so far, each with its outcome
    conversation,              \* the memory channel's messages in the lookback window
    pairs_are_public,          \* config.pairs_are_public
    posted,                    \* records this run posted to the memory channel
    announced                  \* notifications this run posted to the main channel

genVars == <<members, previous_pairs, available, members_previous_matches,
             pairs, first_member>>
codecVars == <<messages, metadata, exc>>
notifyVars == <<exc_arg, success_count, fail_count, pair_index, dm_calls>>
runVars == <<conversation, pairs_are_public, posted, announced>>
vars == <<pc, genVars, codecVars, notifyVars, runVars>>

(***************************************************************************)
(* Bounds of the model.                                                    *)
(***************************************************************************)
MaxMembers == 4     \* most members handed to generate_pairs
MaxHistPairs == 1   \* most pairs, over all rounds, of a history handed to it
MaxRunMembers == 3  \* most channel members of a run of run_random_coffee
MaxHist == 2        \* most messages of the memory channel in the lookback window
MaxPairs == 3       \* most pairs of a Round handed to the encoder or the dispatcher
MaxDecodeSize == 3  \* size of a decoder input: its records, a record with
                    \* several pair entries counting once per entry

(***************************************************************************)
(* Python list helpers.                                                    *)
(***************************************************************************)
Range(s) == {s[i] : i \in 1..Len(s)}

\* list.pop(): the list without its last element
Front(s) == SubSeq(s, 1, Len(s) - 1)

Last(s) == s[Len(s)]

\* list.remove(x): the list without the first occurrence of x
Remove(s, x) ==
    LET i == CHOOSE k \in 1..Len(s) : s[k] = x /\ \A j \in 1..(k - 1) : s[j] # x
    IN  SubSeq(s, 1, i - 1) \o SubSeq(s, i + 1, Len(s))

\* every order random.shuffle can leave the list in
RECURSIVE Shuffles(_)
Shuffles(s) ==
    IF s = <<>> THEN {<<>>}
    ELSE UNION {{<<s[i]>> \o rest :
                    rest \in Shuffles(SubSeq(s, 1, i - 1) \o SubSeq(s, i + 1, Len(s)))}
                : i \in 1..Len(s)}

\* how often x occurs over both positions of the pairs of a Round
Occurrences(ps, x) ==
    Cardinality({i \in 1..Len(ps) : ps[i][1] = x})
  + Cardinality({i \in 1..Len(ps) : ps[i][2] = x})

(***************************************************************************)
(* Inputs.                                                                 *)
(***************************************************************************)
AllMembers == <<"U1", "U2", "U3", "U4", "U5", "U6">>
Stranger == "U0"   \* an identifier of the history that is no current member

MemberLists == {SubSeq(AllMembers, 1, n) : n \in 0..MaxMembers}

\* the orders random.shuffle can leave each member list in, computed once
ShuffledMembers ==
    [m \in {SubSeq(AllMembers, 1, n) : n \in 0..Len(AllMembers)} |-> Shuffles(m)]

\* identifiers the recorded pairs of a history are drawn from
HistIds == {AllMembers[1], AllMembers[2], Stranger}
HistPair == HistIds \X HistIds

\* the sequences over S of length at most n
SeqUpTo(S, n) == UNION {[1..k -> S] : k \in 0..n}

\* the histories of at most r rounds holding at most b pairs in all
RECURSIVE HistoriesWith(_, _)
HistoriesWith(r, b) ==
    IF r = 0 THEN {<<>>}
    ELSE {<<>>} \cup
         UNION {{<<round>> \o rest : rest \in HistoriesWith(r - 1, b - Len(round))}
                : round \in SeqUpTo(HistPair, b)}

None == [isNone |-> TRUE, val |-> <<>>]
Some(v) == [isNone |-> FALSE, val |-> v]

Histories == {None} \cup {Some(h) : h \in HistoriesWith(MaxHistPairs + 1, MaxHistPairs)}

\* Python truthiness of an Optional list: None and [] are both falsy
Truthy(opt) == ~opt.isNone /\ opt.val # <<>>

(***************************************************************************)
(* Message records.  A Slack message is read through                       *)
(* message.get('metadata'), metadata.get('event_type'),                    *)
(* metadata.get('event_payload', {}), event_payload.get('pairs', []) and   *)
(* pair['user1'], pair['user2']; the record below holds one field per read.*)
(***************************************************************************)
NoKey == "<absent>"                 \* the key is not in the dict
Marker == "random_coffee_pairs"
NoExc == ""

Entry(u1, u2) == [user1 |-> u1, user2 |-> u2]

\* kind: "missing" (no such key), "null" (the key holds None) or "dict";
\* pairs_key: whether the dict has a 'pairs' key
Payload(kind, pairs_key, entries, timestamp, count) ==
    [kind |-> kind, pairs_key |-> pairs_key, pairs |-> entries,
     timestamp |-> timestamp, count |-> count]

NoPayload(kind) == Payload(kind, "missing", <<>>, NoKey, 0)

\* meta: "missing" (no metadata, or None), "empty" ({}) or "dict"
Message(user, meta, event_type, event_payload) ==
    [user |-> user, meta |-> meta, event_type |-> event_type,
     event_payload |-> event_payload]

BotUser == "B0"
OtherUser == "P1"

\* the variables of the dispatcher and of the run before either has started
NotifyIdle ==
    /\ exc_arg = 0
    /\ success_count = 0
    /\ fail_count = 0
    /\ pair_index = 0
    /\ dm_calls = <<>>

RunIdle ==
    /\ conversation = <<>>
    /\ pairs_are_public = TRUE
    /\ posted = <<>>
    /\ announced = <<>>

(***************************************************************************)
(* build_previous_matches_dict                                             *)
(***************************************************************************)
\* ScanRound without lines 77-78: only pairs led by the member are counted
RECURSIVE ScanRound_FirstOnly(_, _, _)
ScanRound_FirstOnly(member, pair_set, acc) ==
    IF pair_set = <<>> THEN acc
    ELSE LET p1 == Head(pair_set)[1]
             p2 == Head(pair_set)[2]
         IN  ScanRound_FirstOnly(member, Tail(pair_set),
                                 IF p1 = member THEN acc \cup {p2} ELSE acc)

\* the avoid-set of one member after scanning the pairs of one round in order
RECURSIVE ScanRound(_, _, _)
ScanRound(member, pair_set, acc) ==
    IF pair_set = <<>> THEN acc
    ELSE LET p1 == Head(pair_set)[1]
             p2 == Head(pair_set)[2]
         IN  ScanRound(member, Tail(pair_set),
                       IF p1 = member THEN acc \cup {p2}
                       ELSE IF p2 = member THEN acc \cup {p1}
                       ELSE acc)

RECURSIVE ScanHistory(_, _, _)
ScanHistory(member, history, acc) ==
    IF history = <<>> THEN acc
    ELSE ScanHistory(member, Tail(history), ScanRound(member, Head(history), acc))

build_previous_matches_dict(ms, prev) ==
    IF ~Truthy(prev)
    THEN [m \in Range(ms) |-> {}]
    ELSE [m \in Range(ms) |-> ScanHistory(m, prev.val, {})]

(***************************************************************************)
(* find_best_match                                                         *)
(***************************************************************************)
\* find_best_match without the preference for new candidates
find_best_match_NoPreference(member1, available_members, matches) ==
    Range(available_members)

\* the members random.choice can return; the empty set when the call raises
find_best_match(member1, available_members, matches) ==
    LET new_candidates ==
            SelectSeq(available_members, LAMBDA m : m \notin matches[member1])
    IN  IF available_members = <<>> THEN {}
        ELSE IF new_candidates # <<>> THEN Range(new_candidates)
        ELSE Range(available_members)

(***************************************************************************)
(* generate_pairs                                                          *)
(***************************************************************************)
\* GenStart without line 138's copy: the caller's list is the shuffled pool
GenStart_NoCopy ==
    /\ pc = "gen"
    /\ IF members = <<>>
       THEN /\ pc' = "gen_done"
            /\ UNCHANGED <<members, available, members_previous_matches, first_member>>
       ELSE \E s \in ShuffledMembers[members] :
              /\ available' = s
              /\ members' = s
              /\ members_previous_matches' =
                     build_previous_matches_dict(members, previous_pairs)
              /\ first_member' = Last(s)
              /\ pc' = "gen_loop"
    /\ pairs' = <<>>
    /\ UNCHANGED previous_pairs
    /\ UNCHANGED <<codecVars, notifyVars, runVars>>

\* GenStart remembering available[0], not available[-1], as first_member
GenStart_FirstOfList ==
    /\ pc = "gen"
    /\ IF members = <<>>
       THEN /\ pc' = "gen_done"
            /\ UNCHANGED <<available, members_previous_matches, first_member>>
       ELSE \E s \in ShuffledMembers[members] :
              /\ available' = s
              /\ members_previous_matches' =
                     build_previous_matches_dict(members, previous_pairs)
              /\ first_member' = s[1]
              /\ pc' = "gen_loop"
    /\ pairs' = <<>>
    /\ UNCHANGED <<members, previous_pairs>>
    /\ UNCHANGED <<codecVars, notifyVars, runVars>>

\* lines 134-145: the empty list returns at once; otherwise copy, shuffle,
\* build the avoid-sets and remember the member that will be drawn first
GenStart ==
    /\ pc = "gen"
    /\ IF members = <<>>
       THEN /\ pc' = "gen_done"
            /\ UNCHANGED <<available, members_previous_matches, first_member>>
       ELSE \E s \in ShuffledMembers[members] :
              /\ available' = s
              /\ members_previous_matches' =
                     build_previous_matches_dict(members, previous_pairs)
              /\ first_member' = Last(s)
              /\ pc' = "gen_loop"
    /\ pairs' = <<>>
    /\ UNCHANGED <<members, previous_pairs>>
    /\ UNCHANGED <<codecVars, notifyVars, runVars>>

\* GenPairStep without line 152, available.remove(member2)
GenPairStep_NoRemove ==
    /\ pc = "gen_loop"
    /\ Len(available) >= 2
    /\ LET member1 == Last(available)
           rest == Front(available)
           choices == find_best_match(member1, rest, members_previous_matches)
       IN  IF choices = {}
           THEN /\ pc' = "gen_raised"
                /\ available' = rest
                /\ UNCHANGED pairs
           ELSE \E member2 \in choices :
                  /\ available' = rest
                  /\ pairs' = Append(pairs, <<member1, member2>>)
                  /\ pc' = "gen_loop"
    /\ UNCHANGED <<members, previous_pairs, members_previous_matches, first_member>>
    /\ UNCHANGED <<codecVars, notifyVars, runVars>>

\* lines 148-153: one iteration with at least two members in the pool
GenPairStep ==
    /\ pc = "gen_loop"
    /\ Len(available) >= 2
    /\ LET member1 == Last(available)
           rest == Front(available)
           choices == find_best_match(member1, rest, members_previous_matches)
       IN  IF choices = {}
           THEN /\ pc' = "gen_raised"
                /\ available' = rest
                /\ UNCHANGED pairs
           ELSE \E member2 \in choices :
                  /\ available' = Remove(rest, member2)
                  /\ pairs' = Append(pairs, <<member1, member2>>)
                  /\ pc' = "gen_loop"
    /\ UNCHANGED <<members, previous_pairs, members_previous_matches, first_member>>
    /\ UNCHANGED <<codecVars, notifyVars, runVars>>

\* GenOddStep pairing the member left over with itself, not with first_member
GenOddStep_SelfPair ==
    /\ pc = "gen_loop"
    /\ Len(available) = 1
    /\ LET choices == find_best_match(first_member, available, members_previous_matches)
       IN  IF choices = {}
           THEN /\ pc' = "gen_raised"
                /\ UNCHANGED <<available, pairs>>
           ELSE \E member2 \in choices :
                  /\ available' = Remove(available, member2)
                  /\ pairs' = Append(pairs, <<member2, member2>>)
                  /\ pc' = "gen_loop"
    /\ UNCHANGED <<members, previous_pairs, members_previous_matches, first_member>>
    /\ UNCHANGED <<codecVars, notifyVars, runVars>>

\* GenOddStep without line 157, available.remove(member2)
GenOddStep_NoRemove ==
    /\ pc = "gen_loop"
    /\ Len(available) = 1
    /\ LET choices == find_best_match(first_member, available, members_previous_matches)
       IN  IF choices = {}
           THEN /\ pc' = "gen_raised"
                /\ UNCHANGED <<available, pairs>>
           ELSE \E member2 \in choices :
                  /\ available' = available
                  /\ pairs' = Append(pairs, <<first_member, member2>>)
                  /\ pc' = "gen_loop"
    /\ UNCHANGED <<members, previous_pairs, members_previous_matches, first_member>>
    /\ UNCHANGED <<codecVars, notifyVars, runVars>>

\* GenOddStep popping the member left over before looking for its partner
GenOddStep_PopFirst ==
    /\ pc = "gen_loop"
    /\ Len(available) = 1
    /\ LET rest == Front(available)
           choices == find_best_match(first_member, rest, members_previous_matches)
       IN  IF choices = {}
           THEN /\ pc' = "gen_raised"
                /\ available' = rest
                /\ UNCHANGED pairs
           ELSE \E member2 \in choices :
                  /\ available' = Remove(rest, member2)
                  /\ pairs' = Append(pairs, <<first_member, member2>>)
                  /\ pc' = "gen_loop"
    /\ UNCHANGED <<members, previous_pairs, members_previous_matches, first_member>>
    /\ UNCHANGED <<codecVars, notifyVars, runVars>>

\* lines 154-158: the iteration for the single member left in the pool
GenOddStep ==
    /\ pc = "gen_loop"
    /\ Len(available) = 1
    /\ LET choices == find_best_match(first_member, available, members_previous_matches)
       IN  IF choices = {}
           THEN /\ pc' = "gen_raised"
                /\ UNCHANGED <<available, pairs>>
           ELSE \E member2 \in choices :
                  /\ available' = Remove(available, member2)
                  /\ pairs' = Append(pairs, <<first_member, member2>>)
                  /\ pc' = "gen_loop"
    /\ UNCHANGED <<members, previous_pairs, members_previous_matches, first_member>>
    /\ UNCHANGED <<codecVars, notifyVars, runVars>>

\* lines 147, 160-161: the pool is empty, the loop ends and pairs is returned
GenReturn ==
    /\ pc = "gen_loop"
    /\ available = <<>>
    /\ pc' = "gen_done"
    /\ UNCHANGED genVars
    /\ UNCHANGED <<codecVars, notifyVars, runVars>>

GenInit ==
    /\ pc = "gen"
    /\ members \in MemberLists
    /\ previous_pairs \in Histories
    /\ available = <<>>
    /\ members_previous_matches = <<>>
    /\ pairs = <<>>
    /\ first_member = ""
    /\ messages = <<>>
    /\ metadata = NoPayload("missing")
    /\ exc = NoExc
    /\ NotifyIdle
    /\ RunIdle

GenNext == GenStart \/ GenPairStep \/ GenOddStep \/ GenReturn

SpecGen == GenInit /\ [][GenNext]_vars

\* generate_pairs is one sequential call: a step that can be taken is taken
SpecGenFair == GenInit /\ [][GenNext]_vars /\ WF_vars(GenNext)

(***************************************************************************)
(* pairs_to_metadata and the wrapping done when the record is posted       *)
(***************************************************************************)
\* pairs_to_metadata with the user1 and user2 keys exchanged
pairs_to_metadata_Swapped(ps, now) ==
    Payload("dict", "list",
            [i \in 1..Len(ps) |-> Entry(ps[i][2], ps[i][1])], now, Len(ps))

pairs_to_metadata(ps, now) ==
    Payload("dict", "list",
            [i \in 1..Len(ps) |-> Entry(ps[i][1], ps[i][2])], now, Len(ps))

\* post_message_with_metadata: the metadata sent with the message
metadata_formatted(user, md) == Message(user, "dict", Marker, md)

(***************************************************************************)
(* parse_previous_pairs_from_metadata                                      *)
(***************************************************************************)
\* line 47: the list comprehension raises KeyError at the first entry that
\* lacks 'user1' or 'user2'
EntriesRaise(pairs_data) ==
    \E i \in 1..Len(pairs_data) :
        pairs_data[i].user1 = NoKey \/ pairs_data[i].user2 = NoKey

EntriesToPairs(pairs_data) ==
    [i \in 1..Len(pairs_data) |-> <<pairs_data[i].user1, pairs_data[i].user2>>]

\* lines 42-43: the two .get() calls with their defaults
PairsData(message) ==
    IF message.event_payload.kind = "missing" THEN <<>>
    ELSE IF message.event_payload.pairs_key = "missing" THEN <<>>
    ELSE message.event_payload.pairs

\* ParseLoop putting each decoded round in front of the list, not at its end
RECURSIVE ParseLoop_Prepend(_, _)
ParseLoop_Prepend(msgs, acc) ==
    IF msgs = <<>> THEN [exc |-> NoExc, val |-> acc]
    ELSE LET message == Head(msgs)
         IN  IF message.meta # "dict"
             THEN ParseLoop_Prepend(Tail(msgs), acc)
             ELSE IF message.event_type # Marker
             THEN ParseLoop_Prepend(Tail(msgs), acc)
             ELSE IF message.event_payload.kind = "null"
             THEN [exc |-> "AttributeError", val |-> acc]
             ELSE IF PairsData(message) = <<>>
             THEN ParseLoop_Prepend(Tail(msgs), acc)
             ELSE IF EntriesRaise(PairsData(message))
             THEN [exc |-> "KeyError", val |-> acc]
             ELSE ParseLoop_Prepend(Tail(msgs),
                            <<EntriesToPairs(PairsData(message))>> \o acc)

\* lines 31-48: the loop; the result is the exception raised, if any, and
\* the list previous_pairs built up to there
RECURSIVE ParseLoop(_, _)
ParseLoop(msgs, acc) ==
    IF msgs = <<>> THEN [exc |-> NoExc, val |-> acc]
    ELSE LET message == Head(msgs)
         IN  IF message.meta # "dict"
             THEN ParseLoop(Tail(msgs), acc)
             ELSE IF message.event_type # Marker
             THEN ParseLoop(Tail(msgs), acc)
             ELSE IF message.event_payload.kind = "null"
             THEN [exc |-> "AttributeError", val |-> acc]
             ELSE IF PairsData(message) = <<>>
             THEN ParseLoop(Tail(msgs), acc)
             ELSE IF EntriesRaise(PairsData(message))
             THEN [exc |-> "KeyError", val |-> acc]
             ELSE ParseLoop(Tail(msgs),
                            Append(acc, EntriesToPairs(PairsData(message))))

\* parse_previous_pairs_from_metadata without lines 50-51 (the None result)
parse_previous_pairs_from_metadata_NoNone(msgs) ==
    LET r == ParseLoop(msgs, <<>>)
    IN  IF r.exc # NoExc THEN [exc |-> r.exc, ret |-> None]
        ELSE [exc |-> NoExc, ret |-> Some(r.val)]

\* lines 29-54: [exc, ret] with ret the Optional[PairHistory] returned
parse_previous_pairs_from_metadata(msgs) ==
    LET r == ParseLoop(msgs, <<>>)
    IN  IF r.exc # NoExc THEN [exc |-> r.exc, ret |-> None]
        ELSE IF r.val = <<>> THEN [exc |-> NoExc, ret |-> None]
        ELSE [exc |-> NoExc, ret |-> Some(r.val)]

(***************************************************************************)
(* Decoder inputs.                                                         *)
(***************************************************************************)
EntryIds == {AllMembers[1], AllMembers[2]}
\* the well-formed entries, an entry without 'user2', one without 'user1'
EntrySet == {Entry(u1, u2) : u1, u2 \in EntryIds}
            \cup {Entry(AllMembers[1], NoKey), Entry(NoKey, AllMembers[1])}
Timestamps == {"t1", "t2"}

\* the records that hold no pairs list
PlainRecords ==
    { Message(BotUser, "missing", NoKey, NoPayload("missing")),
      Message(BotUser, "empty", NoKey, NoPayload("missing")),
      Message(BotUser, "dict", "other_event", NoPayload("dict")),
      Message(BotUser, "dict", Marker, NoPayload("missing")),
      Message(BotUser, "dict", Marker, NoPayload("null")),
      Message(BotUser, "dict", Marker, NoPayload("dict")) }

\* the marker records with a pairs list of at most b entries
ListRecords(b) ==
    { Message(BotUser, "dict", Marker, Payload("dict", "list", es, NoKey, 0))
        : es \in SeqUpTo(EntrySet, b) }

\* what a record counts for in the size of a decoder input
Weight(m) == IF Len(m.event_payload.pairs) > 1 THEN Len(m.event_payload.pairs) ELSE 1

\* the lists of records of size at most b
RECURSIVE MessageLists(_)
MessageLists(b) ==
    IF b = 0 THEN {<<>>}
    ELSE {<<>>} \cup
         UNION {{<<m>> \o rest : rest \in MessageLists(b - Weight(m))}
                : m \in PlainRecords \cup ListRecords(b)}

Rounds == SeqUpTo(EntryIds \X EntryIds, MaxPairs)

(***************************************************************************)
(* The codec: a Round encoded, posted and decoded; or a list of records    *)
(* decoded.                                                                *)
(***************************************************************************)
\* main.py line 131: metadata = pairs_to_metadata(pairs)
CodecEncode ==
    /\ pc = "enc"
    /\ \E now \in Timestamps : metadata' = pairs_to_metadata(pairs, now)
    /\ pc' = "wrap"
    /\ UNCHANGED <<genVars, messages, exc, notifyVars, runVars>>

\* slack_client.py lines 274-283: the record as it is stored in the channel
CodecWrap ==
    /\ pc = "wrap"
    /\ messages' = <<metadata_formatted(BotUser, metadata)>>
    /\ pc' = "parse"
    /\ UNCHANGED <<genVars, metadata, exc, notifyVars, runVars>>

\* parse_previous_pairs_from_metadata(messages)
Parse ==
    /\ pc = "parse"
    /\ LET r == parse_previous_pairs_from_metadata(messages)
       IN  /\ exc' = r.exc
           /\ previous_pairs' = r.ret
           /\ pc' = IF r.exc = NoExc THEN "parse_done" ELSE "parse_raised"
    /\ UNCHANGED <<members, available, members_previous_matches, pairs,
                   first_member, messages, metadata, notifyVars, runVars>>

CodecInit ==
    /\ members = <<>>
    /\ previous_pairs = None
    /\ available = <<>>
    /\ members_previous_matches = <<>>
    /\ first_member = ""
    /\ exc = NoExc
    /\ metadata = NoPayload("missing")
    /\ NotifyIdle
    /\ RunIdle
    /\ \/ pc = "enc" /\ pairs \in Rounds /\ messages = <<>>
       \/ pc = "parse" /\ pairs = <<>> /\ messages \in MessageLists(MaxDecodeSize)

CodecNext == CodecEncode \/ CodecWrap \/ Parse

SpecCodec == CodecInit /\ [][CodecNext]_vars

(***************************************************************************)
(* send_pair_notifications                                                 *)
(***************************************************************************)
\* lines 227-228
NotifyStart ==
    /\ pc = "notify"
    /\ success_count' = 0
    /\ fail_count' = 0
    /\ pair_index' = 0
    /\ pc' = "notify_loop"
    /\ UNCHANGED <<genVars, codecVars, exc_arg, dm_calls, runVars>>

\* NotifyDeliver letting the exception of a failed delivery leave the loop
NotifyDeliver_Propagate ==
    /\ pc = "notify_loop"
    /\ pair_index < Len(pairs)
    /\ \E ok \in BOOLEAN :
         /\ dm_calls' = Append(dm_calls, [pair |-> pairs[pair_index + 1], ok |-> ok])
         /\ success_count' = IF ok THEN success_count + 1 ELSE success_count
         /\ fail_count' = IF ok THEN fail_count ELSE fail_count + 1
         /\ pc' = IF ok THEN "notify_loop" ELSE "notify_raised"
         /\ exc' = IF ok THEN exc ELSE "SlackClientError"
    /\ pair_index' = pair_index + 1
    /\ UNCHANGED <<genVars, messages, metadata, exc_arg, runVars>>

\* lines 230-241: one iteration: send_group_dm is called for the next pair
\* and either returns or raises; the exception is caught and counted
NotifyDeliver ==
    /\ pc = "notify_loop"
    /\ pair_index < Len(pairs)
    /\ \E ok \in BOOLEAN :
         /\ dm_calls' = Append(dm_calls, [pair |-> pairs[pair_index + 1], ok |-> ok])
         /\ success_count' = IF ok THEN success_count + 1 ELSE success_count
         /\ fail_count' = IF ok THEN fail_count ELSE fail_count + 1
    /\ pair_index' = pair_index + 1
    /\ UNCHANGED <<pc, genVars, codecVars, exc_arg, runVars>>

\* NotifyFinish raising as soon as one delivery failed
NotifyFinish_AnyFailure ==
    /\ pc = "notify_loop"
    /\ pair_index = Len(pairs)
    /\ IF fail_count > 0
       THEN /\ exc' = "PairingError"
            /\ exc_arg' = fail_count
            /\ pc' = "notify_raised"
       ELSE /\ pc' = "notify_done"
            /\ UNCHANGED <<exc, exc_arg>>
    /\ UNCHANGED <<genVars, messages, metadata, success_count, fail_count,
                   pair_index, dm_calls, runVars>>

\* lines 243-246: the loop is over; PairingError if every delivery failed
NotifyFinish ==
    /\ pc = "notify_loop"
    /\ pair_index = Len(pairs)
    /\ IF fail_count > 0 /\ success_count = 0
       THEN /\ exc' = "PairingError"
            /\ exc_arg' = fail_count
            /\ pc' = "notify_raised"
       ELSE /\ pc' = "notify_done"
            /\ UNCHANGED <<exc, exc_arg>>
    /\ UNCHANGED <<genVars, messages, metadata, success_count, fail_count,
                   pair_index, dm_calls, runVars>>

NotifyInit ==
    /\ pc = "notify"
    /\ pairs \in Rounds
    /\ members = <<>>
    /\ previous_pairs = None
    /\ available = <<>>
    /\ members_previous_matches = <<>>
    /\ first_member = ""
    /\ messages = <<>>
    /\ metadata = NoPayload("missing")
    /\ exc = NoExc
    /\ NotifyIdle
    /\ RunIdle

NotifyNext == NotifyStart \/ NotifyDeliver \/ NotifyFinish

SpecNotify == NotifyInit /\ [][NotifyNext]_vars

(***************************************************************************)
(* SlackClient.get_conversation_history                                    *)
(***************************************************************************)
\* the Python slice s[:k] for an integer k of either sign
SliceTo(s, k) ==
    IF k >= 0
    THEN SubSeq(s, 1, IF k < Len(s) THEN k ELSE Len(s))
    ELSE SubSeq(s, 1, IF Len(s) + k > 0 THEN Len(s) + k ELSE 0)

\* lines 215-227: the pages put together, filtered by author, then limited
\* (max_messages = 0 is falsy: no limit)
get_conversation_history(history, bot_user_id, max_messages) ==
    LET from_bot == SelectSeq(history, LAMBDA msg : msg.user = bot_user_id)
    IN  IF max_messages # 0 THEN SliceTo(from_bot, max_messages) ELSE from_bot

(***************************************************************************)
(* run_random_coffee, from the member list on (main.py lines 72-146)       *)
(***************************************************************************)
RunMemberLists == {SubSeq(AllMembers, 1, n) : n \in 0..MaxRunMembers}

\* what the memory channel may hold: the record of an earlier round, a
\* marker record with a null payload, a bot message and a member's message
RunRecords ==
    { metadata_formatted(BotUser,
          pairs_to_metadata(<< <<AllMembers[1], AllMembers[2]>> >>, "t1")),
      Message(BotUser, "dict", Marker, NoPayload("null")),
      Message(BotUser, "missing", NoKey, NoPayload("missing")),
      Message(OtherUser, "missing", NoKey, NoPayload("missing")) }

\* lines 80-82
RunCheckMembers ==
    /\ pc = "run"
    /\ pc' = IF members = <<>> THEN "run_done" ELSE "history"
    /\ UNCHANGED <<genVars, codecVars, notifyVars, runVars>>

\* lines 85-97 and 105-107: the history is fetched, or the call fails
RunGetHistory ==
    /\ pc = "history"
    /\ \E ok \in BOOLEAN :
         IF ok
         THEN /\ messages' =
                     get_conversation_history(conversation, BotUser, Len(members) - 2)
              /\ pc' = "parse"
              /\ UNCHANGED exc
         ELSE /\ exc' = "SlackClientError"
              /\ pc' = "run_aborted"
              /\ UNCHANGED messages
    /\ UNCHANGED <<genVars, metadata, notifyVars, runVars>>

\* lines 99-111: previous_pairs is handed to generate_pairs
RunGenerate ==
    /\ pc = "parse_done"
    /\ pc' = "gen"
    /\ UNCHANGED <<genVars, codecVars, notifyVars, runVars>>

\* an exception of the decoder or of generate_pairs leaves run_random_coffee
RunPropagate ==
    /\ pc \in {"parse_raised", "gen_raised"}
    /\ pc' = "run_aborted"
    /\ UNCHANGED <<genVars, codecVars, notifyVars, runVars>>

\* lines 117-123
RunCheckPairs ==
    /\ pc = "gen_done"
    /\ pc' = IF pairs = <<>> THEN "run_done" ELSE "notify"
    /\ UNCHANGED <<genVars, codecVars, notifyVars, runVars>>

\* RunAfterNotify re-raising the PairingError instead of logging it
RunAfterNotify_Reraise ==
    /\ pc \in {"notify_done", "notify_raised"}
    /\ pc' = IF pc = "notify_raised" THEN "run_aborted" ELSE "post"
    /\ UNCHANGED <<genVars, codecVars, notifyVars, runVars>>

\* lines 122-126: a PairingError of the dispatcher is logged as a warning
RunAfterNotify ==
    /\ pc \in {"notify_done", "notify_raised"}
    /\ exc' = NoExc
    /\ pc' = "post"
    /\ UNCHANGED <<genVars, messages, metadata, notifyVars, runVars>>

\* lines 129-134 and 142-144: the summary and the record are posted to the
\* memory channel, or the call fails
RunPostPairs ==
    /\ pc = "post"
    /\ \E now \in Timestamps, ok \in BOOLEAN :
         /\ metadata' = pairs_to_metadata(pairs, now)
         /\ IF ok
            THEN /\ posted' = Append(posted, metadata_formatted(BotUser, metadata'))
                 /\ pc' = IF pairs_are_public THEN "run_done" ELSE "announce"
                 /\ UNCHANGED exc
            ELSE /\ exc' = "SlackClientError"
                 /\ pc' = "run_aborted"
                 /\ UNCHANGED posted
    /\ UNCHANGED <<genVars, messages, notifyVars, conversation, pairs_are_public,
                   announced>>

\* lines 137-144: with private pairs, the main channel is told of the round
RunAnnounce ==
    /\ pc = "announce"
    /\ \E ok \in BOOLEAN :
         IF ok
         THEN /\ announced' = Append(announced, Len(pairs))
              /\ pc' = "run_done"
              /\ UNCHANGED exc
         ELSE /\ exc' = "SlackClientError"
              /\ pc' = "run_aborted"
              /\ UNCHANGED announced
    /\ UNCHANGED <<genVars, messages, metadata, notifyVars, conversation,
                   pairs_are_public, posted>>

Init ==
    /\ pc = "run"
    /\ members \in RunMemberLists
    /\ conversation \in SeqUpTo(RunRecords, MaxHist)
    /\ pairs_are_public \in BOOLEAN
    /\ previous_pairs = None
    /\ available = <<>>
    /\ members_previous_matches = <<>>
    /\ pairs = <<>>
    /\ first_member = ""
    /\ messages = <<>>
    /\ metadata = NoPayload("missing")
    /\ exc = NoExc
    /\ NotifyIdle
    /\ posted = <<>>
    /\ announced = <<>>

Next ==
    \/ RunCheckMembers \/ RunGetHistory \/ Parse \/ RunGenerate \/ RunPropagate
    \/ GenStart \/ GenPairStep \/ GenOddStep \/ GenReturn
    \/ RunCheckPairs \/ NotifyStart \/ NotifyDeliver \/ NotifyFinish
    \/ RunAfterNotify \/ RunPostPairs \/ RunAnnounce

Spec == Init /\ [][Next]_vars

(***************************************************************************)
(* Claims about send_pair_notifications (checked under SpecNotify).        *)
(***************************************************************************)
NotifyEnded == pc \in {"notify_done", "notify_raised"}

CalledPairs == [i \in 1..Len(dm_calls) |-> dm_calls[i].pair]
Succeeded == {i \in 1..Len(dm_calls) : dm_calls[i].ok}
Failed == {i \in 1..Len(dm_calls) : ~dm_calls[i].ok}

\* C4: send_group_dm is invoked exactly once for every pair, one pair at a
\* time in Round order, whatever deliveries failed before; when the function
\* finishes, success count plus failure count is the number of pairs.
C4_EveryPairAttemptedInOrder ==
    /\ CalledPairs = SubSeq(pairs, 1, Len(dm_calls))
    /\ pc = "notify_loop" =>
           /\ success_count = Cardinality(Succeeded)
           /\ fail_count = Cardinality(Failed)
    /\ NotifyEnded =>
           /\ CalledPairs = pairs
           /\ success_count = Cardinality(Succeeded)
           /\ fail_count = Cardinality(Failed)
           /\ success_count + fail_count = Len(pairs)

\* the first delivery failed and the two pairs after it were still attempted
C4_Witness ==
    /\ NotifyEnded
    /\ Len(pairs) = 3
    /\ ~dm_calls[1].ok
    /\ dm_calls[3].ok

\* C5: PairingError, carrying the failure count, is raised if and only if
\* the Round has at least one pair and every delivery failed, and only after
\* all pairs were attempted; otherwise the function returns normally.
C5_RaisesIffAllFailed ==
    /\ pc = "notify_raised" =>
           /\ exc = "PairingError"
           /\ exc_arg = Len(pairs)
           /\ Len(pairs) >= 1
           /\ Len(dm_calls) = Len(pairs)
           /\ Succeeded = {}
    /\ pc = "notify_done" =>
           /\ exc = NoExc
           /\ Len(dm_calls) = Len(pairs)
           /\ pairs = <<>> \/ Succeeded # {}

\* one delivery of three succeeded and the function returned normally
C5_Witness ==
    /\ pc = "notify_done"
    /\ Len(pairs) = 3
    /\ success_count = 1
    /\ fail_count = 2

(***************************************************************************)
(* Claims about the codec (checked under SpecCodec).                       *)
(***************************************************************************)
\* the record carries the 'random_coffee_pairs' marker
IsMarked(m) == m.meta = "dict" /\ m.event_type = Marker

\* the record carries the marker and a pairs list with at least one entry
HasPairs(m) ==
    /\ IsMarked(m)
    /\ m.event_payload.kind = "dict"
    /\ m.event_payload.pairs_key = "list"
    /\ m.event_payload.pairs # <<>>

\* the marker matched but the payload is structurally incomplete
IsIncomplete(m) ==
    /\ IsMarked(m)
    /\ \/ m.event_payload.kind \in {"missing", "null"}
       \/ m.event_payload.pairs_key = "missing"
       \/ \E i \in 1..Len(m.event_payload.pairs) :
              NoKey \in {m.event_payload.pairs[i].user1, m.event_payload.pairs[i].user2}

\* the pairs a record holds, in recorded order and position
RecordedPairs(m) ==
    [i \in 1..Len(m.event_payload.pairs) |->
        <<m.event_payload.pairs[i].user1, m.event_payload.pairs[i].user2>>]

RoundsOf(records) == [i \in 1..Len(records) |-> RecordedPairs(records[i])]

ParseEnded == pc \in {"parse_done", "parse_raised"}
Encoded == metadata.kind = "dict"

\* C2 as stated: for every Round r, the empty Round included, decoding the
\* single marker record that wraps pairs_to_metadata(r) yields a History of
\* exactly one Round, equal to r in order and position.
C2_Original ==
    (ParseEnded /\ Encoded) =>
        /\ pc = "parse_done"
        /\ previous_pairs = Some(<<pairs>>)

\* C2 as amended: the round trip returns the History <<r>> for every
\* non-empty Round r, and the no-history result None for the empty Round.
C2_RoundTripNonEmpty ==
    (ParseEnded /\ Encoded) =>
        /\ pc = "parse_done"
        /\ previous_pairs = IF pairs = <<>> THEN None ELSE Some(<<pairs>>)

\* a Round of two different pairs, the first of two different members, was
\* encoded and decoded
C2_Witness ==
    /\ pc = "parse_done"
    /\ Encoded
    /\ Len(pairs) = 2
    /\ pairs[1] # pairs[2]
    /\ pairs[1][1] # pairs[1][2]

\* C6 as stated: records without the marker are skipped without failing, and
\* the returned History holds exactly one Round for each record that carries
\* the marker, in record order, each Round holding the record's pairs in order.
C6_Original ==
    (ParseEnded /\ ~Encoded) =>
        /\ SelectSeq(messages, IsMarked) = <<>> => pc = "parse_done"
        /\ pc = "parse_done" =>
               previous_pairs.val = RoundsOf(SelectSeq(messages, IsMarked))

\* C6 as amended: records without the marker are skipped without failing (the
\* outcome is that of decoding the marker records alone), and a returned
\* History holds exactly one Round for each record that carries the marker
\* and a non-empty pairs list, in record order, with its pairs in order.
C6_OneRoundPerPairsRecord ==
    (ParseEnded /\ ~Encoded) =>
        /\ SelectSeq(messages, IsMarked) = <<>> => pc = "parse_done"
        /\ [exc |-> exc, ret |-> previous_pairs] =
               parse_previous_pairs_from_metadata(SelectSeq(messages, IsMarked))
        /\ pc = "parse_done" =>
               previous_pairs.val = RoundsOf(SelectSeq(messages, HasPairs))

\* two different rounds were decoded from a list that also held other records
C6_Witness ==
    /\ pc = "parse_done"
    /\ ~Encoded
    /\ Len(previous_pairs.val) = 2
    /\ previous_pairs.val[1] # previous_pairs.val[2]
    /\ Len(messages) = 3
    /\ ~IsMarked(messages[2])

C8_IncompleteRecordsTolerated ==
    (ParseEnded /\ ~Encoded /\ \E i \in 1..Len(messages) : IsIncomplete(messages[i])) =>
        /\ pc = "parse_done"
        /\ previous_pairs.val =
               RoundsOf(SelectSeq(messages, LAMBDA m : HasPairs(m) /\ ~IsIncomplete(m)))

(***************************************************************************)
(* Claims about generate_pairs (checked under SpecGen).                    *)
(***************************************************************************)
\* C1: for a non-empty list of N distinct members and any history, the Round
\* generate_pairs returns names only members of the input, names every
\* member, holds each member exactly once plus one extra occurrence of a
\* single member exactly when N is odd, and so has ceil(N/2) pairs.
C1_RoundCoversMembers ==
    (pc = "gen_done" /\ members # <<>>) =>
        LET N == Len(members)
            M == Range(members)
            twice == {m \in M : Occurrences(pairs, m) = 2}
            once == {m \in M : Occurrences(pairs, m) = 1}
        IN  /\ \A i \in 1..Len(pairs) : pairs[i][1] \in M /\ pairs[i][2] \in M
            /\ \A m \in M : Occurrences(pairs, m) >= 1
            /\ once \cup twice = M
            /\ Cardinality(twice) = (IF N % 2 = 1 THEN 1 ELSE 0)
            /\ Len(pairs) = (N + 1) \div 2

\* an odd Round of three members over a history was returned
C1_Witness ==
    /\ pc = "gen_done"
    /\ Len(members) = 3
    /\ Len(pairs) = 2
    /\ Truthy(previous_pairs)

\* C3: at every selection step, if the remaining pool holds a member outside
\* the drawn member's avoid-set, the chosen partner is outside the avoid-set
\* (an avoided partner is chosen only when the whole pool is avoided).
C3_AvoidancePreference ==
    [][pairs' # pairs =>
        LET X == Last(pairs')[1]
            Y == Last(pairs')[2]
            pool == IF Len(available) >= 2 THEN Front(available) ELSE available
        IN  (\E i \in 1..Len(pool) : pool[i] \notin members_previous_matches[X])
                => Y \notin members_previous_matches[X]]_vars

\* the last step passed over an avoided member that was still in the pool
C3_Witness ==
    /\ pc = "gen_loop"
    /\ pairs # <<>>
    /\ Last(pairs)[2] \notin members_previous_matches[Last(pairs)[1]]
    /\ \E m \in Range(available) : m \in members_previous_matches[Last(pairs)[1]]

\* C9 as stated: every pair of every returned Round has two distinct members,
\* whatever the size of the member list.
C9_Original ==
    pc = "gen_done" => \A i \in 1..Len(pairs) : pairs[i][1] # pairs[i][2]

\* C9 as amended: every pair has two distinct members unless the list holds a
\* single member, whose Round is the one self-pair of that member.
C9_DistinctUnlessSingle ==
    pc \in {"gen_loop", "gen_done"} =>
        IF Len(members) = 1
        THEN \A i \in 1..Len(pairs) : pairs[i] = <<members[1], members[1]>>
        ELSE \A i \in 1..Len(pairs) : pairs[i][1] # pairs[i][2]

\* the first-drawn member of an odd list was paired a second time
C9_Witness ==
    /\ pc = "gen_done"
    /\ Len(members) = 3
    /\ Len(pairs) = 2
    /\ pairs[2][1] = first_member

\* C11: for an odd number N >= 3 of members, the member in two pairs is the
\* first-drawn member (the last element of the shuffled order, first position
\* of the first pair); the final pair is (first-drawn member, the member left
\* over), and every other member is in exactly one pair.
C11_FirstDrawnIsDoubled ==
    /\ (pc = "gen_loop" /\ pairs = <<>>) => first_member = Last(available)
    /\ (pc = "gen_done" /\ Len(members) >= 3 /\ Len(members) % 2 = 1) =>
           /\ pairs[1][1] = first_member
           /\ Last(pairs)[1] = first_member
           /\ Last(pairs)[2] # first_member
           /\ Occurrences(pairs, first_member) = 2
           /\ \A m \in Range(members) \ {first_member} : Occurrences(pairs, m) = 1
           /\ \A i \in 1..(Len(pairs) - 1) : pairs[i][2] # Last(pairs)[2]

\* a Round of three members ended with the pair (first drawn, left over),
\* the member left over being one the first drawn avoids
C11_Witness ==
    /\ pc = "gen_done"
    /\ Len(members) = 3
    /\ Last(pairs)[1] = first_member
    /\ Last(pairs)[2] \in members_previous_matches[first_member]

\* C12: no selection step of generate_pairs calls find_best_match with an
\* empty pool, so PairingError is never raised, whatever the member list and
\* the history; the empty member list returns the empty Round.
C12_PairingErrorUnreachable ==
    /\ pc # "gen_raised"
    /\ pc = "gen_loop" /\ Len(available) >= 2 =>
           find_best_match(Last(available), Front(available),
                           members_previous_matches) # {}
    /\ pc = "gen_loop" /\ Len(available) = 1 =>
           find_best_match(first_member, available, members_previous_matches) # {}
    /\ (pc = "gen_done" /\ members = <<>>) => pairs = <<>>

\* the single member was matched from a pool holding only itself
C12_Witness ==
    /\ pc = "gen_done"
    /\ Len(members) = 1
    /\ Len(pairs) = 1
    /\ available = <<>>

\* the recorded pairs of every round of the history handed to generate_pairs
PastPairs ==
    UNION {Range(previous_pairs.val[i]) : i \in 1..Len(previous_pairs.val)}

\* C13: the avoid-sets are symmetric and independent of the position inside
\* a recorded pair: for current members X and Y, Y is in X's avoid-set iff X
\* is in Y's, and that is exactly when some past Round holds (X,Y) or (Y,X).
C13_AvoidSetsSymmetric ==
    (pc \in {"gen_loop", "gen_done"} /\ members # <<>>) =>
        \A X, Y \in Range(members) :
            /\ Y \in members_previous_matches[X] <=> X \in members_previous_matches[Y]
            /\ Y \in members_previous_matches[X] <=>
                   (<<X, Y>> \in PastPairs \/ <<Y, X>> \in PastPairs)

\* the history holds (U1, U2) only, and U1 is in the avoid-set of U2
C13_Witness ==
    /\ pc = "gen_loop"
    /\ PastPairs = {<<AllMembers[1], AllMembers[2]>>}
    /\ AllMembers[2] \in Range(members)
    /\ AllMembers[1] \in members_previous_matches[AllMembers[2]]

\* C14: generate_pairs leaves its inputs unchanged: no step changes the
\* caller's member list (elements and order) or the History; only the
\* function's shuffled copy of the pool is consumed.
C14_InputsUnchanged ==
    [][members' = members /\ previous_pairs' = previous_pairs]_vars

\* the shuffled copy of four members was consumed in another order than the
\* caller's list, over a history
C14_Witness ==
    /\ pc = "gen_done"
    /\ Len(members) = 4
    /\ available = <<>>
    /\ pairs[1][1] # Last(members)
    /\ Truthy(previous_pairs)

\* C16: generate_pairs always terminates: every iteration of the loop removes
\* two members from a pool of at least two and the one member of a pool of
\* one, the pool never grows, and the loop ends with an empty pool after
\* exactly ceil(N/2) iterations (one pair is appended per iteration).
C16_Terminates ==
    /\ [][(pc = "gen_loop" /\ pc' = "gen_loop") =>
             /\ Len(available') =
                    Len(available) - (IF Len(available) >= 2 THEN 2 ELSE 1)
             /\ Len(pairs') = Len(pairs) + 1]_vars
    /\ [][pc # "gen" => Len(available') <= Len(available)]_vars
    /\ [](pc = "gen_done" =>
             /\ available = <<>>
             /\ Len(pairs) = (Len(members) + 1) \div 2)
    /\ <>(pc = "gen_done")

\* the loop over four members ended after two iterations
C16_Witness ==
    /\ pc = "gen_done"
    /\ Len(members) = 4
    /\ Len(pairs) = 2
    /\ available = <<>>

C15_HistoryWithinLimit ==
    (pc \in {"parse", "parse_done", "parse_raised"}) =>
        Len(messages) <= (IF Len(members) >= 2 THEN Len(members) - 2 ELSE 0)

====
